---------------------------- MODULE Spec2Model ----------------------------
(* Model of Nobody.live: scanner.py (the ingestion process: game scan,     *)
(* stream scan, rate governor) and app.py (the query process: random       *)
(* reads, the per-game sampling index, games, stats), sharing three redis  *)
(* databases (main db0, stats db1, games db2).                             *)
EXTENDS Integers, Sequences, FiniteSets, TLC

(***************************************************************************)
(* Program constants (scanner.py:22-26, app.py:25).  The large ones are     *)
(* scaled down so that the cases around them are reachable.                 *)
(***************************************************************************)
MAX_VIEWERS == 0
\* scanner.py:23 has 1500
REQUEST_LIMIT == 3
\* scanner.py:24 has 50
MINIMUM_STREAMS_TO_GET == 2
\* scanner.py:26 has 180 (seconds); here in clock ticks
SECONDS_BEFORE_RECORD_EXPIRATION == 2
\* scanner.py:123, 179: the status period
STATUS_EVERY == 10
\* scanner.py:118, 174: the utilization threshold, in percent
SLEEP_ABOVE == 60
\* app.py:25 has maxlen=100
DEQUE_MAXLEN == 2

(***************************************************************************)
(* Bounds of the upstream (the Twitch API) the scanner walks.               *)
(***************************************************************************)
\* longest stream listing, in pages
MaxStreamPages == 10
\* longest game listing, in pages
MaxGamePages == 2
\* most items on one page
MaxItems == 2
\* largest count asked of /streams/<count>
MaxCount == 2

(***************************************************************************)
(* Data: stream objects, game objects, and their JSON texts.                *)
(***************************************************************************)
\* the stream objects of the model
StreamPool ==
  << [id |-> "s1", viewer_count |-> 0, game_id |-> "g1"],
     [id |-> "s2", viewer_count |-> 0, game_id |-> "g1"],
     [id |-> "s3", viewer_count |-> 0, game_id |-> ""],
     [id |-> "s4", viewer_count |-> 1, game_id |-> "g2"] >>

\* the games the upstream may list, in listing order: g1 under two names
GamePool ==
  << [id |-> "g1", name |-> "n1"],
     [id |-> "g1", name |-> "n1b"],
     [id |-> "g2", name |-> "n2"] >>

Range(f) == { f[i] : i \in DOMAIN f }

\* the streams the upstream lists, in listing order: two with no viewer
\* (one of them without a game), one with a viewer
ListedStreams == <<StreamPool[1], StreamPool[3], StreamPool[4]>>

\* json.dumps of a stream object: the text that is the record's key
json_dumps(stream) == <<stream.id, stream.viewer_count, stream.game_id>>

\* json.loads of a stream key
json_loads(key) == [id |-> key[1], viewer_count |-> key[2], game_id |-> key[3]]

\* json.dumps / json.loads of a game object
game_dumps(game) == <<game.id, game.name>>

game_loads(text) == [id |-> text[1], name |-> text[2]]

StreamKeys == { json_dumps(s) : s \in Range(StreamPool) }

\* the items of `pool` at the positions in S, in listing order
RECURSIVE Pick(_, _, _)
Pick(pool, S, i) ==
  IF i > Len(pool) THEN <<>>
  ELSE (IF i \in S THEN <<pool[i]>> ELSE <<>>) \o Pick(pool, S, i + 1)

\* the data arrays a page may carry: at most MaxItems items of the pool
Pages(pool) ==
  { Pick(pool, S, 1) : S \in { T \in SUBSET (1..Len(pool)) : Cardinality(T) <= MaxItems } }

\* the header pairs <<Ratelimit-Remaining, Ratelimit-Limit>> a response may carry
\* utilizations of 60%, 60.5%, 61% and 90%
HeaderPairs == { <<2, 5>>, <<79, 200>>, <<39, 100>>, <<10, 100>> }

\* the responses the upstream may give to the request for page p of a listing
\* of at most `last` pages: cursor 0 stands for a response without a cursor
Responses(pool, p, last) ==
  { [data |-> d, remaining |-> h[1], limit |-> h[2], cursor |-> c] :
      d \in Pages(pool), h \in HeaderPairs,
      c \in (IF p < last THEN {0, p + 1} ELSE {0}) }

\* no response in hand.  The loop bodies read the response up to the cursor
\* lookup (scanner.py:137, 192) and not again before the next request
\* overwrites it, so a response whose cursor was followed counts as gone.
NoResponse == [data |-> <<>>, remaining |-> 0, limit |-> 1, cursor |-> 0]

VARIABLES
  main_redis,        \* db0: stream key -> [fetched, ttl]
  stats_redis,       \* db1: "stats" -> [ratelimit_remaining, ratelimit_limit]
  game_redis,        \* db2: game id -> game text
  pc,                \* the scanner's position
  token,             \* the bearer token of the running scan ("" = None)
  requests_sent,     \* scanner.py:95, 154
  streams_grabbed,   \* scanner.py:96
  response,          \* stream_list / top_game_list: the response in hand
  pagination_offset, \* the cursor to request next (0 = none)
  page,              \* number of the page in hand within the listing
  requests,          \* history: page requests issued since the scan began
  sleeps,            \* history: time.sleep(30) calls since `response` arrived
  processed,         \* history: times `response` went through the loop body
  ended,             \* history: how the last stream scan ended
  walked,            \* history: the games of the pages the game scan was given
  game_stream_dict,  \* app.py:25: <<[game_id, streams]>> in insertion order
  q_pc,              \* the query process's position
  op,                \* the request being served
  count,             \* getStreams' count
  draws,             \* passes made of the loop of app.py:38
  no_duplicates,     \* app.py:30
  todo,              \* members of no_duplicates the loop of app.py:42 has not reached
  key,               \* app.py:42: the key the loop is at
  fetched,           \* app.py:47: stream['fetched'] of the stream being built
  results,           \* app.py:29
  reply              \* what the handler gave back to Flask

scannerVars == <<pc, token, requests_sent, streams_grabbed, response,
                 pagination_offset, page, requests, sleeps, processed, ended,
                 walked>>

storeVars == <<main_redis, stats_redis, game_redis>>

queryVars == <<game_stream_dict, q_pc, op, count, draws, no_duplicates, todo,
               key, fetched, results, reply>>

vars == <<storeVars, scannerVars, queryVars>>

(***************************************************************************)
(* redis                                                                    *)
(***************************************************************************)
\* SETEX key seconds value
Setex(db, name, seconds) ==
  [k \in DOMAIN db \cup {name} |->
     IF k = name THEN [fetched |-> "time", ttl |-> seconds] ELSE db[k]]

\* SET key value
Set(db, name, value) ==
  [k \in DOMAIN db \cup {name} |-> IF k = name THEN value ELSE db[k]]

\* one clock tick: every ttl goes down, a record whose ttl is used up is gone
Expire(db) ==
  [k \in { x \in DOMAIN db : db[x].ttl > 1 } |->
     [fetched |-> db[k].fetched, ttl |-> db[k].ttl - 1]]

(***************************************************************************)
(* scanner.py: the loop body's pieces                                       *)
(***************************************************************************)
\* a filter that lets one viewer too many through
WantedOffByOne(stream) == stream.viewer_count <= MAX_VIEWERS + 1

\* the filter of scanner.py:105
Wanted(stream) == stream.viewer_count <= MAX_VIEWERS

streams_found(data) == SelectSeq(data, Wanted)

\* scanner.py:107-109: setex every stream found
RECURSIVE InsertStreams(_, _)
InsertStreams(db, found) ==
  IF found = <<>> THEN db
  ELSE InsertStreams(Setex(db, json_dumps(Head(found)),
                           SECONDS_BEFORE_RECORD_EXPIRATION), Tail(found))

\* a game scan that keeps the record an id already has (SETNX for SET)
RECURSIVE InsertNewGames(_, _)
InsertNewGames(db, data) ==
  IF data = <<>> THEN db
  ELSE InsertNewGames(IF Head(data).id \in DOMAIN db THEN db
                      ELSE Set(db, Head(data).id, game_dumps(Head(data))),
                      Tail(data))

\* scanner.py:163-165: set every game of the page, in page order
RECURSIVE InsertGames(_, _)
InsertGames(db, data) ==
  IF data = <<>> THEN db
  ELSE InsertGames(Set(db, Head(data).id, game_dumps(Head(data))), Tail(data))

\* Python's round(): to the nearest integer, a tie to the even one
RoundHalfEven(num, den) ==
  LET q == num \div den
      r == num % den
  IN  IF 2 * r > den THEN q + 1
      ELSE IF 2 * r < den THEN q
      ELSE IF q % 2 = 0 THEN q ELSE q + 1

\* scanner.py:116-117, 172-173
rate_limit_usage(remaining, limit) ==
  RoundHalfEven((limit - remaining) * 100, limit)

\* a governor that sleeps at the threshold too
MustSleepAtThreshold(remaining, limit) ==
  rate_limit_usage(remaining, limit) >= SLEEP_ABOVE

\* scanner.py:118, 174
MustSleep(remaining, limit) == rate_limit_usage(remaining, limit) > SLEEP_ABOVE

\* scanner.py:123, 179
StatusDue(sent) == sent % STATUS_EVERY = 0

\* scanner.py:127-133, 183-188
StatsOf(resp) ==
  [ratelimit_remaining |-> resp.remaining, ratelimit_limit |-> resp.limit]

WriteStats(db, sent, resp) ==
  IF StatusDue(sent) THEN Set(db, "stats", StatsOf(resp)) ELSE db

\* a loop that forgets to count its passes
NotIncremented(sent) == sent

\* scanner.py:102, 161: requests_sent += 1
Incremented(sent) == sent + 1

\* a history counter's next value; one response gets at most STATUS_EVERY passes
Tally(n) == IF n < STATUS_EVERY THEN n + 1 ELSE n

\* a loop condition without the minimum-yield override
KeepScanningBudgetOnly(sent, grabbed) == sent <= REQUEST_LIMIT

\* scanner.py:100
KeepScanning(sent, grabbed) ==
  sent <= REQUEST_LIMIT \/ grabbed < MINIMUM_STREAMS_TO_GET

\* a scan function returns: its local variables are gone
Returned ==
  /\ token' = ""
  /\ requests_sent' = 0
  /\ streams_grabbed' = 0
  /\ response' = NoResponse
  /\ pagination_offset' = 0
  /\ page' = 0

(***************************************************************************)
(* scanner.py: __main__ and populate_top_games                              *)
(***************************************************************************)
\* a startup that empties every database (FLUSHALL for FLUSHDB)
FlushAll ==
  /\ UNCHANGED queryVars
  /\ pc = "flush"
  /\ game_redis' = <<>>
  /\ main_redis' = <<>>
  /\ stats_redis' = <<>>
  /\ pc' = "g_token"
  /\ UNCHANGED <<token, requests_sent, streams_grabbed, response,
                 pagination_offset, page, requests, sleeps, processed, ended,
                 walked>>

\* scanner.py:201
Flush ==
  /\ UNCHANGED queryVars
  /\ pc = "flush"
  /\ game_redis' = <<>>
  /\ pc' = "g_token"
  /\ UNCHANGED <<main_redis, stats_redis, token, requests_sent, streams_grabbed,
                 response, pagination_offset, page, requests, sleeps, processed,
                 ended, walked>>

\* scanner.py:149-152: no token, populate_top_games returns
G_TokenFail ==
  /\ UNCHANGED queryVars
  /\ pc = "g_token"
  /\ Returned
  /\ pc' = "s_token"
  /\ UNCHANGED <<storeVars, requests, sleeps, processed, ended, walked>>

\* scanner.py:149-155
G_TokenOk ==
  /\ UNCHANGED queryVars
  /\ pc = "g_token"
  /\ token' = "token"
  /\ requests_sent' = 1
  /\ pagination_offset' = 0
  /\ pc' = "g_request"
  /\ UNCHANGED <<storeVars, streams_grabbed, response, page, requests, sleeps,
                 processed, ended, walked>>

\* scanner.py:158, 197: get_top_games_response
G_Request ==
  /\ UNCHANGED queryVars
  /\ pc = "g_request"
  /\ LET p == IF pagination_offset = 0 THEN 1 ELSE pagination_offset
     IN  /\ response' \in Responses(GamePool, p, MaxGamePages)
         /\ page' = p
  /\ walked' = walked \o response'.data
  /\ requests' = requests + 1
  /\ sleeps' = 0
  /\ processed' = 0
  /\ pc' = "g_loop"
  /\ UNCHANGED <<storeVars, token, requests_sent, streams_grabbed,
                 pagination_offset, ended>>

\* scanner.py:179-197: the cursor is read inside the status branch
G_Follow(sent) == StatusDue(sent)

\* scanner.py:159-197: one pass of the while True body
G_Body ==
  /\ UNCHANGED queryVars
  /\ pc = "g_loop"
  /\ LET sent == Incremented(requests_sent)
     IN  /\ game_redis' = InsertGames(game_redis, response.data)
         /\ sleeps' = IF MustSleep(response.remaining, response.limit)
                      THEN Tally(sleeps) ELSE sleeps
         /\ stats_redis' = WriteStats(stats_redis, sent, response)
         /\ processed' = Tally(processed)
         /\ IF G_Follow(sent)
            THEN IF response.cursor = 0
                 THEN /\ Returned
                      /\ pc' = "s_token"
                 ELSE /\ pagination_offset' = response.cursor
                      /\ requests_sent' = sent
                      /\ response' = NoResponse
                      /\ pc' = "g_request"
                      /\ UNCHANGED <<token, streams_grabbed, page>>
            ELSE /\ requests_sent' = sent
                 /\ pc' = "g_loop"
                 /\ UNCHANGED <<token, streams_grabbed, response, page,
                                pagination_offset>>
  /\ UNCHANGED <<main_redis, requests, ended, walked>>

(***************************************************************************)
(* scanner.py: populate_streamers, called forever by __main__ (203-204)     *)
(***************************************************************************)
\* a scanner that exits when it gets no token
HaltAfterTokenFail == "halted"

\* where a failed token acquisition leaves the process: populate_streamers
\* returns (scanner.py:93) into the while True of scanner.py:203
AfterTokenFail == "s_token"

\* scanner.py:89-93: no token, the scan returns and __main__ calls it again
S_TokenFail ==
  /\ UNCHANGED queryVars
  /\ pc = "s_token"
  /\ Returned
  /\ requests' = 0
  /\ sleeps' = 0
  /\ processed' = 0
  /\ ended' = "no_token"
  /\ walked' = <<>>
  /\ pc' = AfterTokenFail
  /\ UNCHANGED storeVars

\* scanner.py:89-96
S_TokenOk ==
  /\ UNCHANGED queryVars
  /\ pc = "s_token"
  /\ token' = "token"
  /\ requests_sent' = 1
  /\ streams_grabbed' = 0
  /\ pagination_offset' = 0
  /\ requests' = 0
  /\ sleeps' = 0
  /\ processed' = 0
  /\ ended' = "running"
  /\ walked' = <<>>
  /\ pc' = "s_request"
  /\ UNCHANGED <<storeVars, response, page>>

\* scanner.py:99, 142: get_stream_list_response
S_Request ==
  /\ UNCHANGED queryVars
  /\ pc = "s_request"
  /\ LET p == IF pagination_offset = 0 THEN 1 ELSE pagination_offset
     IN  /\ response' \in Responses(ListedStreams, p, MaxStreamPages)
         /\ page' = p
  /\ requests' = requests + 1
  /\ sleeps' = 0
  /\ processed' = 0
  /\ pc' = "s_loop"
  /\ UNCHANGED <<storeVars, token, requests_sent, streams_grabbed,
                 pagination_offset, ended, walked>>

\* scanner.py:100: the while condition is false, the scan returns
S_Exit ==
  /\ UNCHANGED queryVars
  /\ pc = "s_loop"
  /\ ~KeepScanning(requests_sent, streams_grabbed)
  /\ Returned
  /\ ended' = "budget"
  /\ pc' = "s_token"
  /\ UNCHANGED <<storeVars, requests, sleeps, processed, walked>>

\* scanner.py:100-142: one pass of the loop body
S_Body ==
  /\ UNCHANGED queryVars
  /\ pc = "s_loop"
  /\ KeepScanning(requests_sent, streams_grabbed)
  /\ LET sent  == Incremented(requests_sent)
         found == streams_found(response.data)
     IN  /\ main_redis' = InsertStreams(main_redis, found)
         /\ sleeps' = IF MustSleep(response.remaining, response.limit)
                      THEN Tally(sleeps) ELSE sleeps
         /\ stats_redis' = WriteStats(stats_redis, sent, response)
         /\ processed' = Tally(processed)
         /\ IF response.cursor = 0
            THEN /\ Returned
                 /\ ended' = "end_of_list"
                 /\ pc' = "s_token"
            ELSE /\ requests_sent' = sent
                 /\ streams_grabbed' = streams_grabbed + Len(found)
                 /\ pagination_offset' = response.cursor
                 /\ response' = NoResponse
                 /\ pc' = "s_request"
                 /\ UNCHANGED <<token, page, ended>>
  /\ UNCHANGED <<game_redis, requests, walked>>

ScannerNext ==
  \/ Flush
  \/ G_TokenFail
  \/ G_TokenOk
  \/ G_Request
  \/ G_Body
  \/ S_TokenFail
  \/ S_TokenOk
  \/ S_Request
  \/ S_Exit
  \/ S_Body

(***************************************************************************)
(* app.py: the sampling index                                               *)
(***************************************************************************)
\* the position of game_id among the keys of the dict, 0 when it is no key
Position(dict, game_id) ==
  IF \E i \in 1..Len(dict) : dict[i].game_id = game_id
  THEN CHOOSE i \in 1..Len(dict) : dict[i].game_id = game_id
  ELSE 0

Keys(dict) == { dict[i].game_id : i \in 1..Len(dict) }

\* defaultdict.__getitem__ (app.py:25): a missing key is inserted with an
\* empty deque
Touch(dict, game_id) ==
  IF Position(dict, game_id) # 0 THEN dict
  ELSE Append(dict, [game_id |-> game_id, streams |-> <<>>])

StreamsOf(dict, game_id) == dict[Position(dict, game_id)].streams

\* a plain list in place of the bounded deque
ListAppend(deque, x) == Append(deque, x)

\* deque(maxlen=...).append
DequeAppend(deque, x) ==
  IF Len(deque) >= DEQUE_MAXLEN THEN Tail(deque) \o <<x>> ELSE Append(deque, x)

\* app.py:52: game_stream_dict[game_id].append(key)
Observe(dict, game_id, k) ==
  LET d == Touch(dict, game_id)
  IN  [d EXCEPT ![Position(d, game_id)].streams = DequeAppend(@, k)]

(***************************************************************************)
(* redis reads                                                              *)
(***************************************************************************)
\* None, as a key
None == <<>>

\* RANDOMKEY: any key of the database, None when it is empty
RandomKeys(db) == IF DOMAIN db = {} THEN {None} ELSE DOMAIN db

\* GET of a stream key: the stored time, "None" when the key is gone
Get(db, k) == IF k \in DOMAIN db THEN db[k].fetched ELSE "None"

\* TTL: the seconds left, -2 when the key is gone
Ttl(db, k) == IF k \in DOMAIN db THEN db[k].ttl ELSE -2

\* DBSIZE
DbSize(db) == Cardinality(DOMAIN db)

(***************************************************************************)
(* app.py: the handlers.  A handler's answer is held in `reply` until Flask *)
(* has sent it (Q_Sent).                                                    *)
(***************************************************************************)
NoReply == [status |-> "none", body |-> <<>>]

Ok(body) == [status |-> "ok", body |-> body]

\* an exception leaves the handler: Flask answers 500
Fault == [status |-> "fault", body |-> <<>>]

Idle ==
  /\ op' = "none"
  /\ count' = 0
  /\ draws' = 0
  /\ no_duplicates' = {}
  /\ todo' = {}
  /\ key' = None
  /\ fetched' = "None"
  /\ results' = <<>>

\* app.py:33-35, 82-83: GET /stream/<game_id>
Q_StreamOfGame(game_id) ==
  /\ UNCHANGED <<storeVars, scannerVars>>
  /\ q_pc = "idle"
  /\ LET d == Touch(game_stream_dict, game_id)
         streams == StreamsOf(d, game_id)
     IN  /\ game_stream_dict' = d
         /\ IF streams = <<>>
            THEN reply' = Fault
            ELSE \E i \in 1..Len(streams) :
                   reply' = Ok(<<json_loads(streams[i])>>)
  /\ op' = "stream_of_game"
  /\ q_pc' = "done"
  /\ UNCHANGED <<count, draws, no_duplicates, todo, key, fetched, results>>

\* app.py:28-30, 84, 93: GET /stream (count 1) and GET /streams/<count>
Q_Begin(route, n) ==
  /\ UNCHANGED <<storeVars, scannerVars>>
  /\ q_pc = "idle"
  /\ op' = route
  /\ count' = n
  /\ draws' = 0
  /\ no_duplicates' = {}
  /\ todo' = {}
  /\ results' = <<>>
  /\ q_pc' = "draw"
  /\ UNCHANGED <<game_stream_dict, key, fetched, reply>>

\* a drawing loop that makes one pass too many
DrawsOneMore(n) == n + 1

\* app.py:38: range(int(count))
Draws(n) == n

\* app.py:38-40: one pass of the drawing loop
Q_Draw ==
  /\ UNCHANGED <<storeVars, scannerVars>>
  /\ q_pc = "draw"
  /\ draws < Draws(count)
  /\ \E k \in RandomKeys(main_redis) :
       /\ no_duplicates' = no_duplicates \cup {k}
       /\ todo' = no_duplicates \cup {k}
  /\ draws' = draws + 1
  /\ UNCHANGED <<game_stream_dict, q_pc, op, count, key, fetched, results,
                 reply>>

\* app.py:85-87, 95-97: what the route makes of getStreams' list
Answer(route, list) ==
  IF route = "stream" /\ list # <<>> THEN Ok(<<list[1]>>) ELSE Ok(list)

\* app.py:42-47: the loop reaches a key of the set, in any order; None ends
\* the function (app.py:43-44), any other key is parsed and read (GET)
Q_Get ==
  /\ UNCHANGED <<storeVars, scannerVars>>
  /\ q_pc = "draw"
  /\ draws = Draws(count)
  /\ todo # {}
  /\ \E k \in todo :
       /\ todo' = todo \ {k}
       /\ key' = k
       /\ IF k = None
          THEN /\ reply' = Answer(op, results)
               /\ q_pc' = "done"
               /\ UNCHANGED fetched
          ELSE /\ fetched' = Get(main_redis, k)
               /\ q_pc' = "ttl"
               /\ UNCHANGED reply
  /\ UNCHANGED <<game_stream_dict, op, count, draws, no_duplicates, results>>

\* app.py:46-48: the stream object given back for a key
StreamObject(k, f, t) ==
  [id |-> json_loads(k).id, viewer_count |-> json_loads(k).viewer_count,
   game_id |-> json_loads(k).game_id, fetched |-> f, ttl |-> t]

\* app.py:48-53: TTL, the sampling index, the result list
Q_Ttl ==
  /\ UNCHANGED <<storeVars, scannerVars>>
  /\ q_pc = "ttl"
  /\ LET stream == StreamObject(key, fetched, Ttl(main_redis, key))
     IN  /\ game_stream_dict' =
              IF stream.game_id # ""
              THEN Observe(game_stream_dict, stream.game_id, key)
              ELSE game_stream_dict
         /\ results' = Append(results, stream)
  /\ q_pc' = "draw"
  /\ UNCHANGED <<op, count, draws, no_duplicates, todo, key, fetched, reply>>

\* app.py:54: the loop is through
Q_Return ==
  /\ UNCHANGED <<storeVars, scannerVars>>
  /\ q_pc = "draw"
  /\ draws = Draws(count)
  /\ todo = {}
  /\ reply' = Answer(op, results)
  /\ q_pc' = "done"
  /\ UNCHANGED <<game_stream_dict, op, count, draws, no_duplicates, todo, key,
                 fetched, results>>

\* a loop that stops at the first id without a game record
RECURSIVE GamesUntilMissing(_, _)
GamesUntilMissing(dict, db) ==
  IF dict = <<>> \/ Head(dict).game_id \notin DOMAIN db THEN <<>>
  ELSE <<game_loads(db[Head(dict).game_id])>> \o GamesUntilMissing(Tail(dict), db)

\* app.py:64-71: the game records of the ids that are keys of the dict
RECURSIVE GamesOf(_, _)
GamesOf(dict, db) ==
  IF dict = <<>> THEN <<>>
  ELSE (IF Head(dict).game_id \in DOMAIN db
        THEN <<game_loads(db[Head(dict).game_id])>> ELSE <<>>)
       \o GamesOf(Tail(dict), db)

\* app.py:57-71, 100-105: GET /games
Q_Games ==
  /\ UNCHANGED <<storeVars, scannerVars>>
  /\ q_pc = "idle"
  /\ reply' = Ok(GamesOf(game_stream_dict, game_redis))
  /\ op' = "games"
  /\ q_pc' = "done"
  /\ UNCHANGED <<game_stream_dict, count, draws, no_duplicates, todo, key,
                 fetched, results>>

\* app.py:111, 121: json.loads(stats_redis.get('stats')) raises TypeError on None
StatsLoaded(db) == "stats" \in DOMAIN db

\* app.py:108-114: GET /stats.json
Q_StatsJson ==
  /\ UNCHANGED <<storeVars, scannerVars>>
  /\ q_pc = "idle"
  /\ reply' =
       IF StatsLoaded(stats_redis)
       THEN Ok(<<[ratelimit_remaining |-> stats_redis["stats"].ratelimit_remaining,
                  ratelimit_limit |-> stats_redis["stats"].ratelimit_limit,
                  streams |-> DbSize(main_redis)]>>)
       ELSE Fault
  /\ op' = "stats_json"
  /\ q_pc' = "done"
  /\ UNCHANGED <<game_stream_dict, count, draws, no_duplicates, todo, key,
                 fetched, results>>

\* app.py:117-126: GET /status, /stats, /stats.txt; `spent` in hundredths
Q_StatsHuman ==
  /\ UNCHANGED <<storeVars, scannerVars>>
  /\ q_pc = "idle"
  /\ reply' =
       IF StatsLoaded(stats_redis)
       THEN LET r == stats_redis["stats"].ratelimit_remaining
                l == stats_redis["stats"].ratelimit_limit
            IN  Ok(<<[left |-> r, of |-> l,
                      spent |-> RoundHalfEven((l - r) * 10000, l),
                      loaded |-> DbSize(main_redis) - 1]>>)
       ELSE Fault
  /\ op' = "stats_human"
  /\ q_pc' = "done"
  /\ UNCHANGED <<game_stream_dict, count, draws, no_duplicates, todo, key,
                 fetched, results>>

\* Flask has sent the answer; the handler's locals are gone
Q_Sent ==
  /\ UNCHANGED <<storeVars, scannerVars>>
  /\ q_pc = "done"
  /\ Idle
  /\ reply' = NoReply
  /\ q_pc' = "idle"
  /\ UNCHANGED game_stream_dict

QueryNext ==
  \/ \E g \in {"g1", "g2"} : Q_StreamOfGame(g)
  \/ Q_Begin("stream", 1)
  \/ \E n \in 0..MaxCount : Q_Begin("streams", n)
  \/ Q_Draw
  \/ Q_Get
  \/ Q_Ttl
  \/ Q_Return
  \/ Q_Games
  \/ Q_StatsJson
  \/ Q_StatsHuman
  \/ Q_Sent

(***************************************************************************)
(* The ingestion process as the query process sees it: the SETEX of         *)
(* scanner.py:109 for any stream the filter passes, and the passing of time *)
(***************************************************************************)
Busy == q_pc \in {"draw", "ttl"}

Ingest(stream) ==
  /\ Wanted(stream)
  /\ main_redis' = Setex(main_redis, json_dumps(stream),
                         SECONDS_BEFORE_RECORD_EXPIRATION)
  /\ UNCHANGED <<stats_redis, game_redis, scannerVars, game_stream_dict, q_pc,
                 op, count, draws, no_duplicates, todo, key, fetched, results,
                 reply>>

Tick ==
  /\ main_redis # <<>>
  /\ main_redis' = Expire(main_redis)
  /\ UNCHANGED <<stats_redis, game_redis, scannerVars, game_stream_dict, q_pc,
                 op, count, draws, no_duplicates, todo, key, fetched, results,
                 reply>>

ScannerIdle ==
  /\ pc = "flush"
  /\ token = ""
  /\ requests_sent = 0
  /\ streams_grabbed = 0
  /\ response = NoResponse
  /\ pagination_offset = 0
  /\ page = 0
  /\ requests = 0
  /\ sleeps = 0
  /\ processed = 0
  /\ ended = "none"
  /\ walked = <<>>

QueryIdle ==
  /\ game_stream_dict = <<>>
  /\ q_pc = "idle"
  /\ op = "none"
  /\ count = 0
  /\ draws = 0
  /\ no_duplicates = {}
  /\ todo = {}
  /\ key = None
  /\ fetched = "None"
  /\ results = <<>>
  /\ reply = NoReply

\* the scanner starts with whatever an earlier run left in the game database
ScannerInit ==
  /\ main_redis = <<>>
  /\ stats_redis = <<>>
  /\ game_redis \in { <<>>, [g \in {"g0"} |-> game_dumps([id |-> "g0", name |-> "n0"])] }
  /\ ScannerIdle
  /\ QueryIdle

SpecScanner == ScannerInit /\ [][ScannerNext]_vars

\* the scanner's steps are taken as long as one is possible
SpecScannerFair == SpecScanner /\ WF_vars(ScannerNext)

\* the query process starts on stores the scanner has or has not yet filled
QueryInit ==
  /\ main_redis = <<>>
  /\ \/ /\ stats_redis = <<>>
        /\ game_redis = <<>>
     \/ /\ stats_redis = Set(<<>>, "stats", StatsOf([remaining |-> 10, limit |-> 100]))
        /\ game_redis \in { InsertGames(<<>>, <<GamePool[1], GamePool[2]>>),
                            InsertGames(<<>>, <<GamePool[3], GamePool[1]>>) }
  /\ ScannerIdle
  /\ QueryIdle

StoreNext == Tick \/ (\E s \in Range(StreamPool) : Ingest(s))

\* the query process with a store that changes between requests only
SpecQuery == QueryInit /\ [][QueryNext \/ (~Busy /\ StoreNext)]_vars

\* the query process with a store that changes between any two of its steps
SpecQueryConc == QueryInit /\ [][QueryNext \/ StoreNext]_vars

\* the query process, the store between its requests, and the startup of a
\* scanner process (scanner.py:201) on the stores an earlier run has filled
SpecStore == QueryInit /\ [][QueryNext \/ (~Busy /\ (StoreNext \/ Flush))]_vars

(***************************************************************************)
(* Properties of the scanner                                                *)
(***************************************************************************)
\* a step of the stream scan's loop body (S_Body)
StreamBodyStep == pc = "s_loop" /\ processed' = Tally(processed)

\* a step of the game scan's loop body (G_Body)
GameBodyStep == pc = "g_loop"

\* the stream scan returns from its loop (S_Body at the last page, or S_Exit)
StreamScanReturns == pc = "s_loop" /\ pc' = "s_token"

IsStored(db, stream) == json_dumps(stream) \in DOMAIN db

\* C1: the stream scan writes every item of a processed page whose
\* viewer_count is at most MAX_VIEWERS, with the full time to live, writes no
\* item above it, and so no record of the store is above MAX_VIEWERS.
C1_OnlyWantedStored ==
  /\ [](\A k \in DOMAIN main_redis : json_loads(k).viewer_count <= MAX_VIEWERS)
  /\ [][StreamBodyStep =>
          \A i \in 1..Len(response.data) :
            LET item == response.data[i]
            IN  IF item.viewer_count > MAX_VIEWERS
                THEN ~IsStored(main_redis', item)
                ELSE /\ IsStored(main_redis', item)
                     /\ main_redis'[json_dumps(item)].ttl =
                          SECONDS_BEFORE_RECORD_EXPIRATION]_vars

\* C1 witness: a scan has written a stream and holds a page that lists a
\* stream with a viewer next to one without
C1_Witness ==
  /\ pc = "s_loop"
  /\ streams_grabbed > 0
  /\ main_redis # <<>>
  /\ \E i, j \in 1..Len(response.data) :
       /\ response.data[i].viewer_count > MAX_VIEWERS
       /\ response.data[j].viewer_count <= MAX_VIEWERS

\* the utilization of a response is above 60.5 percent, the least value that
\* rounds to more than 60
Above60(resp) == 200 * (resp.limit - resp.remaining) > 121 * resp.limit

Exactly60(resp) == 5 * (resp.limit - resp.remaining) = 3 * resp.limit

\* C5: a pass of either scan loop sleeps once if the utilization of the
\* response, rounded, is above 60 percent and not at all otherwise (not at
\* exactly 60 percent); no other step sleeps.
C5_BackoffAbove60 ==
  [][/\ (StreamBodyStep \/ GameBodyStep) =>
          /\ response.limit > 0
          /\ response.remaining \in 0..response.limit
          /\ Above60(response) => sleeps' = sleeps + 1
          /\ ~Above60(response) => sleeps' = sleeps
          /\ Exactly60(response) => sleeps' = sleeps
     /\ ~(StreamBodyStep \/ GameBodyStep) => sleeps' \in {sleeps, 0}]_vars

\* C5 witness: the game scan has slept for a response at 61 percent
C5_Witness ==
  /\ pc = "g_loop"
  /\ response.remaining = 39
  /\ response.limit = 100
  /\ processed = 1
  /\ sleeps = 1

\* the matching items a stream scan has found once the page in hand is counted
GrabbedWithPage == streams_grabbed + Len(streams_found(response.data))

\* C9: the stream scan leaves its loop by the budget only with the minimum
\* met; a scan that ends short of the minimum ends at a page without a cursor;
\* and with the minimum not met, a page with a cursor is processed and its
\* cursor followed, whatever the request counter.
C9_MinimumOverridesBudget ==
  [][/\ (StreamScanReturns /\ ended' = "budget") =>
          /\ streams_grabbed >= MINIMUM_STREAMS_TO_GET
          /\ requests_sent > REQUEST_LIMIT
     /\ (StreamScanReturns /\ GrabbedWithPage < MINIMUM_STREAMS_TO_GET) =>
          /\ ended' = "end_of_list"
          /\ response.cursor = 0
     /\ (/\ pc = "s_loop"
         /\ streams_grabbed < MINIMUM_STREAMS_TO_GET
         /\ response.cursor # 0) =>
          /\ pc' = "s_request"
          /\ pagination_offset' = response.cursor
     /\ pc = "s_request" => (pc' = "s_loop" /\ requests' = requests + 1)]_vars

\* C9 witness: a scan over its budget and short of the minimum is about to
\* request the next page
C9_Witness ==
  /\ pc = "s_request"
  /\ requests_sent > REQUEST_LIMIT + 1
  /\ streams_grabbed < MINIMUM_STREAMS_TO_GET
  /\ pagination_offset # 0

\* C10: a failed token acquisition requests no page and writes nothing, and
\* leaves the process at the next token acquisition; so does every return
\* of the scan, and a scan with a token first requests the page without cursor.
C10_CycleRestarts ==
  /\ [][(pc = "s_token" /\ ended' = "no_token") =>
          /\ pc' = "s_token"
          /\ requests' = 0
          /\ UNCHANGED storeVars]_vars
  /\ [][StreamScanReturns => ended' \in {"end_of_list", "budget"}]_vars
  /\ [][(pc = "s_token" /\ pc' # "s_token") =>
          /\ pc' = "s_request"
          /\ token' = "token"
          /\ pagination_offset' = 0
          /\ requests' = 0]_vars
  /\ [][(pc = "s_request" /\ requests = 0) => (page' = 1 /\ requests' = 1)]_vars
  /\ [](pc \in {"flush", "g_token", "g_request", "g_loop",
                "s_token", "s_request", "s_loop"})
  /\ [](pc = "s_token" => (ENABLED S_TokenOk /\ ENABLED S_TokenFail))

\* C10 witness: a cycle has failed for want of a token after an earlier
\* cycle wrote streams
C10_Witness ==
  /\ pc = "s_token"
  /\ ended = "no_token"
  /\ requests = 0
  /\ main_redis # <<>>

\* the game scan returns from its loop (G_Body at the last page)
GameScanReturns == pc = "g_loop" /\ pc' = "s_token"

\* the step processes a response that carries no cursor
AtLastPage == response.cursor = 0 /\ processed' = Tally(processed)

\* the response in hand, the last one requested, carries no cursor
ReachedLastPage == response.cursor = 0

InGameWalk == pc \in {"g_request", "g_loop"}

InStreamWalk == pc \in {"s_request", "s_loop"}

WalkOver == pc = "s_token"

Answered(route) == q_pc = "done" /\ op = route

\* C2: GET /stream/<game_id> never answers with a fault, also for a game id
\* that is unknown to the sampling index or has an empty sequence.
C2_MissIsDefined == Answered("stream_of_game") => reply.status = "ok"

\* C3: without a `stats` key in the stats store, the stats endpoints answer
\* without a fault.
C3_NoStatsIsDefined ==
  ((Answered("stats_json") \/ Answered("stats_human"))
     /\ ~StatsLoaded(stats_redis)) => reply.status = "ok"

\* the sequence the index holds for a game id, empty for an id that is no key
Recorded(dict, game_id) ==
  IF game_id \in Keys(dict) THEN StreamsOf(dict, game_id) ELSE <<>>

\* the step of getStreams that records `key` under a game id (Q_Ttl)
RecordsKey == q_pc = "ttl" /\ json_loads(key).game_id # ""

\* C4: no sequence of the sampling index is longer than its capacity; a key
\* recorded under a full sequence takes the place of the oldest one, the
\* others move up in their order; under a sequence with room it is added at
\* the end, also when the sequence holds it already.
C4_IndexBounded ==
  /\ [](\A i \in 1..Len(game_stream_dict) :
          Len(game_stream_dict[i].streams) <= DEQUE_MAXLEN)
  /\ [][RecordsKey =>
          LET g   == json_loads(key).game_id
              old == Recorded(game_stream_dict, g)
              new == Recorded(game_stream_dict', g)
          IN  IF Len(old) = DEQUE_MAXLEN
              THEN /\ Len(new) = Len(old)
                   /\ \A j \in 1..(Len(old) - 1) : new[j] = old[j + 1]
                   /\ new[Len(new)] = key
              ELSE /\ Len(new) = Len(old) + 1
                   /\ \A j \in 1..Len(old) : new[j] = old[j]
                   /\ new[Len(new)] = key]_vars

\* C4 witness: a key is about to be recorded under a full sequence of two
\* different keys, the oldest of which is not that key
C4_Witness ==
  /\ RecordsKey
  /\ LET old == Recorded(game_stream_dict, json_loads(key).game_id)
     IN  /\ Len(old) = DEQUE_MAXLEN
         /\ old[1] # old[Len(old)]
         /\ old[1] # key

\* the store key of a stream object of an answer
KeyOf(obj) == <<obj.id, obj.viewer_count, obj.game_id>>

\* getStreams(count) hands its list to the route (Q_Return, or Q_Get at None)
BatchReturns == q_pc = "draw" /\ q_pc' = "done" /\ op = "streams"

\* C6: on a store of K keys that does not change during the request,
\* GET /streams/<N> answers with at most min(N, K) stream objects, no two of
\* them for the same key, and with none when the store is empty.
C6_BatchDistinct ==
  [][BatchReturns =>
       LET body == reply'.body
       IN  /\ reply'.status = "ok"
           /\ \A i, j \in 1..Len(body) : KeyOf(body[i]) = KeyOf(body[j]) => i = j
           /\ \A i \in 1..Len(body) : KeyOf(body[i]) \in DOMAIN main_redis
           /\ Len(body) <= count
           /\ Len(body) <= DbSize(main_redis)
           /\ main_redis = <<>> => body = <<>>]_vars

\* C6 witness: a request for two streams on a store of two keys has drawn
\* the same key twice and answers with one stream object
C6_Witness ==
  /\ Answered("streams")
  /\ count = 2
  /\ DbSize(main_redis) = 2
  /\ Cardinality(no_duplicates) = 1
  /\ Len(reply.body) = 1

\* the step of GET /games (Q_Games)
GamesStep == q_pc = "idle" /\ op' = "games"

TenthResponse == requests % STATUS_EVERY = 0

\* C11: a pass of the stream scan over the 10th, 20th, ... page response of
\* the scan overwrites the Stats Record with that response's headers, and a
\* pass over any other response leaves the Stats Record as it is.
C11_StatsAtEveryTenthResponse ==
  [][StreamBodyStep =>
       IF TenthResponse
       THEN /\ StatsLoaded(stats_redis')
            /\ stats_redis'["stats"] = StatsOf(response)
       ELSE stats_redis' = stats_redis]_vars

\* C12: the game scan puts every page response through its loop body once,
\* sleeps at most once for it, and follows its cursor (or returns) in that
\* same pass.
C12_GamePageProcessedOnce ==
  /\ [](InGameWalk => (processed <= 1 /\ sleeps <= 1))
  /\ [][GameBodyStep => (processed = 0 /\ pc' \in {"g_request", "s_token"})]_vars

\* the page responses of the running stream scan that went through the loop
\* body: at the loop test the response in hand has not
PagesDone == IF pc = "s_loop" THEN requests - 1 ELSE requests

\* the minimum was found on the first REQUEST_LIMIT pages of the stream scan
MetWithinBudget ==
  /\ InStreamWalk
  /\ streams_grabbed >= MINIMUM_STREAMS_TO_GET
  /\ PagesDone <= REQUEST_LIMIT

\* C13: a stream scan that found the minimum on its first REQUEST_LIMIT pages
\* sends at most REQUEST_LIMIT page requests, and returns only with the
\* response in hand put through the loop body.
C13_BudgetBoundsRequests ==
  /\ [](MetWithinBudget => requests <= REQUEST_LIMIT)
  /\ [][(StreamScanReturns /\ MetWithinBudget) => processed' >= 1]_vars

\* the ids of the games on the walked pages
WalkedIds == { walked[i].id : i \in 1..Len(walked) }

\* the game the walk showed last under an id
LastSeen(id) ==
  walked[CHOOSE i \in 1..Len(walked) :
           /\ walked[i].id = id
           /\ \A j \in (i + 1)..Len(walked) : walked[j].id # id]

\* C14: when the game scan returns from the page without a cursor, the game
\* database holds a record for the ids of the walked pages and for no other
\* id (none of before the flush), each the text of the game last seen under
\* its id, a plain value that carries no time to live.
C14_GameStoreIsTheWalk ==
  [][GameScanReturns =>
       /\ DOMAIN game_redis' = WalkedIds
       /\ \A id \in WalkedIds :
            /\ game_redis'[id] = <<id, LastSeen(id).name>>
            /\ game_loads(game_redis'[id]) = LastSeen(id)
       /\ "g0" \notin DOMAIN game_redis']_vars

\* C14 witness: the game scan has returned from a walk of two pages that
\* showed g1 under two names and g2, and the database holds both ids
C14_Witness ==
  /\ pc = "s_token"
  /\ ended = "none"
  /\ Len(walked) >= 3
  /\ \E i, j \in 1..Len(walked) :
       i < j /\ walked[i].id = walked[j].id /\ walked[i].name # walked[j].name
  /\ DOMAIN game_redis = {"g1", "g2"}

(***************************************************************************)
(* Properties of the stores                                                 *)
(***************************************************************************)
\* a step of the query process
QueryStep == queryVars' # queryVars

\* the startup flush of the scanner (Flush)
FlushStep == pc = "flush" /\ pc' # "flush"

\* the step is one tick of the clock for every stream record
TimePasses ==
  /\ DOMAIN main_redis' = { k \in DOMAIN main_redis : main_redis[k].ttl > 1 }
  /\ \A k \in DOMAIN main_redis' :
       /\ main_redis'[k].ttl = main_redis[k].ttl - 1
       /\ main_redis'[k].fetched = main_redis[k].fetched

\* the step writes the stream record k with the full time to live
Writes(k) ==
  /\ k \in DOMAIN main_redis'
  /\ main_redis'[k].ttl = SECONDS_BEFORE_RECORD_EXPIRATION
  /\ DOMAIN main_redis' = DOMAIN main_redis \cup {k}
  /\ \A x \in DOMAIN main_redis \ {k} : main_redis'[x] = main_redis[x]

\* C15: the startup flush empties the game database and leaves the stream
\* and stats databases alone; no step of the query process changes the
\* stream database; every change of it is a write of one record with the
\* full time to live or a tick of the clock, and a record leaves it only at
\* the tick that uses up the time left since its last write.
C15_StreamsLeaveByExpiryOnly ==
  /\ [][FlushStep => (game_redis' = <<>> /\ UNCHANGED <<main_redis, stats_redis>>)]_vars
  /\ [][QueryStep => UNCHANGED main_redis]_vars
  /\ [][main_redis' # main_redis =>
          \/ TimePasses
          \/ \E k \in StreamKeys : Writes(k)]_vars
  /\ [][\A k \in DOMAIN main_redis \ DOMAIN main_redis' :
          main_redis[k].ttl = 1 /\ TimePasses]_vars
  /\ [](\A k \in DOMAIN main_redis :
          main_redis[k].ttl \in 1..SECONDS_BEFORE_RECORD_EXPIRATION)

\* C15 witness: a stream record written before the scanner's startup flush
\* is still there after it, with part of its time used up, and a batch read
\* has returned it
C15_Witness ==
  /\ pc = "g_token"
  /\ game_redis = <<>>
  /\ Answered("streams")
  /\ Len(reply.body) >= 1
  /\ \E k \in DOMAIN main_redis :
       main_redis[k].ttl < SECONDS_BEFORE_RECORD_EXPIRATION

(***************************************************************************)
(* Properties of the query process: the index, concurrent stores, stats     *)
(***************************************************************************)
\* C16: every game id that is a key of the sampling index has a sequence
\* that is not empty, whatever requests were served.
C16_IndexKeysObserved ==
  \A i \in 1..Len(game_stream_dict) : game_stream_dict[i].streams # <<>>

\* getStreams appends a stream object to its results (Q_Ttl)
BuildsObject == q_pc = "ttl" /\ results' # results

\* C17: with the store changing between any two steps of the query process,
\* a stream object is built only for a key that is in the store, with the
\* stored fetch time (not null) and a positive time to live, and only such a
\* key is recorded in the sampling index.
C17_ObjectsOfLiveRecords ==
  [][BuildsObject =>
       LET obj == results'[Len(results')]
       IN  /\ key \in DOMAIN main_redis
           /\ obj.fetched # "None"
           /\ obj.fetched = main_redis[key].fetched
           /\ obj.ttl > 0]_vars

\* C18: with the store changing between the draws, a batch read answers with
\* one stream object for every stream key its draws obtained, in whatever
\* order the drawn set is gone through.
C18_BatchCoversDraws ==
  Answered("streams") =>
    /\ { KeyOf(reply.body[i]) : i \in 1..Len(reply.body) } = no_duplicates \ {None}
    /\ Len(reply.body) = Cardinality(no_duplicates \ {None})

\* the stats handlers answer a request (Q_StatsJson, Q_StatsHuman)
StatsAnswered(route) == q_pc = "idle" /\ op' = route /\ reply'.status = "ok"

\* C19: the stream count of the human-readable summary and the `streams`
\* count of /stats.json are both the number of records of the stream
\* database the handler reads.
C19_StatsCountIsDbSize ==
  [][/\ StatsAnswered("stats_json") =>
          reply'.body[1].streams = DbSize(main_redis)
     /\ StatsAnswered("stats_human") =>
          reply'.body[1].loaded = DbSize(main_redis)]_vars

=============================================================================
